---- MODULE Spec2Model ----
(***************************************************************************)
(* A model of the WorkoutTracer CDK application.                           *)
(*                                                                         *)
(*   Spec          one synthesis run of bin/workout_tracer_cdk.ts: the     *)
(*                 configuration loader, the pipeline stack and the        *)
(*                 per-stage stack sequence, then the automatic synthesis. *)
(*   SpecPipeline  the deployed pipeline: webhook requests through the     *)
(*                 request authorizer, and executions of the four phases.  *)
(*   SpecAlarms    the alarms of the pipeline, the API and the identity    *)
(*                 hook, evaluated over 5-minute windows of metric data.   *)
(*   SpecApi       requests to the REST API of a stage.                    *)
(*   SpecQueue     messages of the rate-limited batcher queue and its      *)
(*                 dead-letter queue.                                      *)
(*                                                                         *)
(* Strings whose characters matter (stage names, stack identifiers) are    *)
(* sequences of one-character strings, so that concatenation and `grep`    *)
(* are computed and not assumed.                                           *)
(***************************************************************************)
EXTENDS Integers, Sequences, FiniteSets, TLC

VARIABLES
    env,          \* process.env: the five context flags
    payload,      \* process.env.CDK_ENV_CONFIG
    file,         \* ../cdk.env.json on disk
    pc,           \* main's position
    stmt,         \* index of main's current top-level statement
    envConfig,    \* main's local envConfig
    fileRead,     \* whether readFileSync was called
    stageIdx,     \* index of the for-loop over Object.keys(envConfig)
    step,         \* next stack of the loop body
    locals,       \* the loop body's databaseStack, authStack, api
    stacks,       \* the stacks of the app's construct tree, in creation order
    emitted,      \* identifiers of the stacks written to the cloud assembly
    executions,   \* pipeline executions
    requests,     \* POST /github-webhook requests
    invocations,  \* requests handed to the pipeline-deploy function
    metricSource, \* the component that emits metric data in this run
    datapoints,   \* the metric data of each 5-minute window so far
    pending,      \* whether the latest window awaits alarm evaluation
    alarmState,   \* state of every alarm
    alarmHistory, \* the alarms' state changes and what each published
    apiLog,       \* requests to the REST API of a stage and their answers
    sentIds,      \* messages sent to the rate-limited batcher queue
    mainQueue,    \* messages in that queue: visibility and receive count
    dlq,          \* messages in its dead-letter queue
    deliveries    \* how often each message was delivered to a consumer

synthVars == <<env, payload, file, pc, stmt, envConfig, fileRead, stageIdx, step,
               locals, stacks, emitted>>
pipeVars == <<executions, requests, invocations>>
alarmVars == <<metricSource, datapoints, pending, alarmState, alarmHistory>>
queueVars == <<sentIds, mainQueue, dlq, deliveries>>
opsVars == <<alarmVars, apiLog, queueVars>>
vars == <<env, payload, file, pc, stmt, envConfig, fileRead, stageIdx, step,
          locals, stacks, emitted, executions, requests, invocations, opsVars>>

----------------------------------------------------------------------------
(* Bounds *)

MaxStages == 2
MaxExec == 2
MaxReq == 2
MaxWindows == 7
MaxApiReq == 1
MaxMsgs == 2

----------------------------------------------------------------------------
(* Strings *)

Chars_Prefix == <<"W","o","r","k","o","u","t","T","r","a","c","e","r","-">>
Chars_Dash == <<"-">>
Chars_PipelineStack == <<"P","i","p","e","l","i","n","e","S","t","a","c","k">>
Chars_DatabaseStack == <<"D","a","t","a","b","a","s","e","S","t","a","c","k">>
Chars_AuthStack == <<"A","u","t","h","S","t","a","c","k">>
Chars_WebsiteStack == <<"W","e","b","s","i","t","e","S","t","a","c","k">>
Chars_ApiStack == <<"A","p","i","S","t","a","c","k">>
Chars_ApiDnsStack == <<"A","p","i","D","n","s","S","t","a","c","k">>
Chars_Staging == <<"S","t","a","g","i","n","g">>
Chars_Prod == <<"P","r","o","d">>
Chars_PreProd == <<"P","r","e","P","r","o","d">>
Chars_prod == <<"p","r","o","d">>

\* The stage names a configuration map may use as keys.
StageNames == {Chars_Staging, Chars_Prod, Chars_PreProd, Chars_prod}

\* grep: the line contains the pattern as a substring.
Contains(hay, needle) ==
    \E i \in 1..(Len(hay) - Len(needle) + 1) :
        SubSeq(hay, i, i + Len(needle) - 1) = needle

IsPrefix(a, b) == Len(a) <= Len(b) /\ a = SubSeq(b, 1, Len(a))

UpperChars == <<"A","B","C","D","E","F","G","H","I","J","K","L","M",
                "N","O","P","Q","R","S","T","U","V","W","X","Y","Z">>
LowerChars == <<"a","b","c","d","e","f","g","h","i","j","k","l","m",
                "n","o","p","q","r","s","t","u","v","w","x","y","z">>

\* String.prototype.toLowerCase on the characters stage names are made of.
toLowerCase(str) ==
    [i \in 1..Len(str) |->
        IF \E k \in 1..Len(UpperChars) : UpperChars[k] = str[i]
        THEN LowerChars[CHOOSE k \in 1..Len(UpperChars) : UpperChars[k] = str[i]]
        ELSE str[i]]

RoleChars(kind) ==
    CASE kind = "PipelineStack" -> Chars_PipelineStack
      [] kind = "DatabaseStack" -> Chars_DatabaseStack
      [] kind = "AuthStack" -> Chars_AuthStack
      [] kind = "WebsiteStack" -> Chars_WebsiteStack
      [] kind = "ApiStack" -> Chars_ApiStack
      [] kind = "ApiDnsStack" -> Chars_ApiDnsStack

\* The identifier without its stage suffix.
Mut_StageStackId(kind, stage) == Chars_Prefix \o RoleChars(kind)

\* `WorkoutTracer-${role}-${stage}`
StageStackId(kind, stage) == Chars_Prefix \o RoleChars(kind) \o Chars_Dash \o stage

\* "WorkoutTracer-PipelineStack"
PipelineStackId == Chars_Prefix \o Chars_PipelineStack

----------------------------------------------------------------------------
(* The stage configuration payload *)

\* The fields main destructures from a stage's record.
ConfigFields == {"hostedZoneId", "websiteDomainName", "apiDomainName",
                 "callbackUrls", "websiteCertificateArn", "apiCertificateArn"}

\* Sequences of distinct stage names: the keys of a JSON object, in
\* insertion order (the order Object.keys returns them in).
RECURSIVE KeyOrders(_)
KeyOrders(n) ==
    IF n = 0 THEN {<<>>}
    ELSE LET shorter == KeyOrders(n - 1)
         IN  shorter \cup
             {Append(o, s) : o \in {q \in shorter : Len(q) = n - 1},
                             s \in StageNames}

DistinctKeys(o) == \A i, j \in 1..Len(o) : i # j => o[i] # o[j]

NoDefect == <<0, "none">>

\* A record is complete, or lacks one field, or is null ("record").
Defects(o) == {NoDefect} \cup ((1..Len(o)) \X (ConfigFields \cup {"record"}))

\* A configuration map: its keys in order, and at most one defective record.
ConfigMaps ==
    UNION {{[order |-> o, defect |-> d] : d \in Defects(o)} :
           o \in {q \in KeyOrders(MaxStages) : DistinctKeys(q)}}

EmptyMap == [order |-> <<>>, defect |-> NoDefect]

\* envConfig[stage] for the i-th key: the set of fields present, or null.
RecordIsNull(cfg, i) == cfg.defect = <<i, "record">>
RecordFields(cfg, i) ==
    IF cfg.defect[1] = i THEN ConfigFields \ {cfg.defect[2]} ELSE ConfigFields

\* A text handed to JSON.parse.
JsonTexts ==
    {[kind |-> k, cfg |-> EmptyMap] : k \in {"empty", "malformed", "null"}}
    \cup {[kind |-> "map", cfg |-> c] : c \in ConfigMaps}

Null == [kind |-> "null", cfg |-> EmptyMap]
NotLoaded == [kind |-> "undefined", cfg |-> EmptyMap]
Thrown == [kind |-> "thrown", cfg |-> EmptyMap]

\* JSON.parse: a SyntaxError for a text that is no JSON value (the empty
\* text included), otherwise the value: null, or the map.
JsonParse(text) ==
    CASE text.kind \in {"empty", "malformed"} -> Thrown
      [] text.kind = "null" -> Null
      [] text.kind = "map" -> [kind |-> "map", cfg |-> text.cfg]

----------------------------------------------------------------------------
(* getEnvConfig *)

FlagNames == {"CICD", "CODEBUILD_BUILD_ID", "CODEPIPELINE_EXECUTION_ID",
              "CODEDEPLOY_DEPLOYMENT_ID", "USE_SECRETS_MANAGER"}

\* An environment variable is unset, set to "", or set to a non-empty text.
AllUnset == [f \in FlagNames |-> "unset"]
EnvChoices ==
    {AllUnset} \cup
    {[AllUnset EXCEPT ![f] = v] : f \in FlagNames, v \in {"empty", "set"}}

\* !!process.env.X : true for a non-empty text only.
Truthy(v) == v = "set"

\* Mutant: a flag counts as soon as it is defined, the empty text included.
Mut_isCICD(e) == \E f \in FlagNames : e[f] # "unset"

isCICD(e) ==
    \/ Truthy(e["CICD"])
    \/ Truthy(e["CODEBUILD_BUILD_ID"])
    \/ Truthy(e["CODEPIPELINE_EXECUTION_ID"])
    \/ Truthy(e["CODEDEPLOY_DEPLOYMENT_ID"])
    \/ Truthy(e["USE_SECRETS_MANAGER"])

Unset == [kind |-> "unset", cfg |-> EmptyMap]
Unreadable == [kind |-> "unreadable", cfg |-> EmptyMap]

\* !process.env.CDK_ENV_CONFIG : unset or "".
PayloadAbsent(p) == p.kind \in {"unset", "empty"}

\* Mutant: with the payload absent the loader falls back to the local file.
Mut_getEnvConfig(e, p, f) ==
    IF isCICD(e) /\ ~PayloadAbsent(p)
    THEN JsonParse(p)
    ELSE IF f.kind = "unreadable" THEN Thrown ELSE JsonParse(f)

\* The value getEnvConfig returns, or Thrown.
getEnvConfig(e, p, f) ==
    IF isCICD(e)
    THEN IF PayloadAbsent(p) THEN Thrown ELSE JsonParse(p)
    ELSE IF f.kind = "unreadable" THEN Thrown ELSE JsonParse(f)

\* Whether getEnvConfig calls fs.readFileSync.
ReadsFile(e) == ~isCICD(e)

----------------------------------------------------------------------------
(* The stacks *)

Undefined == [kind |-> "undefined", stage |-> <<>>, output |-> "undefined"]
NoRef == [kind |-> "undefined", stage |-> <<>>, outputs |-> {}]
NoHandles == [p \in {} |-> Undefined]
NoLocals == [databaseStack |-> NoRef, authStack |-> NoRef, api |-> NoRef]

\* The public readonly members a constructor assigns.
OutputsOf(kind) ==
    CASE kind = "DatabaseStack" -> {"table"}
      [] kind = "AuthStack" -> {"userPool", "userPoolClient", "userPoolDomain",
                                "identityPool"}
      [] kind = "WebsiteStack" -> {"siteBucket", "distribution"}
      [] kind = "ApiStack" -> {"kmsKey", "identityPool", "api"}
      [] kind = "ApiDnsStack" -> {}
      [] kind = "PipelineStack" -> {}

\* ref.out : the handle, or undefined when the member was never assigned.
Member(ref, out) ==
    IF out \in ref.outputs
    THEN [kind |-> ref.kind, stage |-> ref.stage, output |-> out]
    ELSE Undefined

\* Mutant: the static-site stack created before the identity stack.
Mut_StackSequence ==
    <<"DatabaseStack", "WebsiteStack", "AuthStack", "ApiStack", "ApiDnsStack">>

\* The order of the `new ...Stack` statements in the loop body of main.
StackSequence ==
    <<"DatabaseStack", "AuthStack", "WebsiteStack", "ApiStack", "ApiDnsStack">>

\* Mutant: the api-dns stack given a member the identity stack never assigns.
Mut_HandleProps(kind, l) ==
    CASE kind = "DatabaseStack" -> NoHandles
      [] kind = "AuthStack" ->
            [userTable |-> Member(l.databaseStack, "table")]
      [] kind = "WebsiteStack" -> NoHandles
      [] kind = "ApiStack" ->
            [userPool |-> Member(l.authStack, "userPool"),
             userPoolClient |-> Member(l.authStack, "userPoolClient"),
             userTable |-> Member(l.databaseStack, "table")]
      [] kind = "ApiDnsStack" ->
            [api |-> Member(l.authStack, "api")]

\* The handles main passes in the props of each stack.
HandleProps(kind, l) ==
    CASE kind = "DatabaseStack" -> NoHandles
      [] kind = "AuthStack" ->
            [userTable |-> Member(l.databaseStack, "table")]
      [] kind = "WebsiteStack" -> NoHandles
      [] kind = "ApiStack" ->
            [userPool |-> Member(l.authStack, "userPool"),
             userPoolClient |-> Member(l.authStack, "userPoolClient"),
             userTable |-> Member(l.databaseStack, "table")]
      [] kind = "ApiDnsStack" ->
            [api |-> Member(l.api, "api")]

\* The fields of the stage's record main passes in the props of each stack.
ConfigProps(kind) ==
    CASE kind = "DatabaseStack" -> {}
      [] kind = "AuthStack" -> {"callbackUrls"}
      [] kind = "WebsiteStack" ->
            {"websiteDomainName", "websiteCertificateArn", "hostedZoneId"}
      [] kind = "ApiStack" -> {"apiDomainName"}
      [] kind = "ApiDnsStack" ->
            {"websiteDomainName", "apiDomainName", "hostedZoneId",
             "apiCertificateArn"}

\* The local main assigns the new stack to.
LocalOf(kind) ==
    CASE kind = "DatabaseStack" -> "databaseStack"
      [] kind = "AuthStack" -> "authStack"
      [] kind = "ApiStack" -> "api"
      [] OTHER -> "none"

\* A stack of the construct tree. super(scope, id, props) adds it to the
\* tree before the constructor's body runs; `completed` is whether the body
\* returned.
StackRecord(kind, stage, handles, missing, completed) ==
    [kind |-> kind, stage |-> stage, inputs |-> handles, missing |-> missing,
     outputs |-> IF completed THEN OutputsOf(kind) ELSE {}]

StackId(st) ==
    IF st.kind = "PipelineStack" THEN PipelineStackId
    ELSE StageStackId(st.kind, st.stage)

\* A constructor's body dereferences every handle it is given
\* (userTable.tableName, userPool.userPoolId, ...): undefined throws.
DereferenceThrows(handles) ==
    \E p \in DOMAIN handles : handles[p] = Undefined

----------------------------------------------------------------------------
(* main *)

\* Mutant: the pipeline stack created before the configuration is loaded.
Mut_MainStatements == <<"PipelineStack", "getEnvConfig", "forLoop">>

\* The statements of main that follow `new cdk.App()`, in order.
MainStatements == <<"getEnvConfig", "PipelineStack", "forLoop">>

\* Where main is after its current statement has completed.
AfterStatement == IF stmt = Len(MainStatements) THEN "done" ELSE "main"

\* const envConfig = await getEnvConfig(): a throw rejects main's promise,
\* which nothing handles, and the process ends.
LoadConfig ==
    /\ pc = "main"
    /\ MainStatements[stmt] = "getEnvConfig"
    /\ LET r == getEnvConfig(env, payload, file)
       IN  /\ envConfig' = r
           /\ pc' = IF r = Thrown THEN "failed" ELSE AfterStatement
    /\ stmt' = stmt + 1
    /\ fileRead' = ReadsFile(env)
    /\ UNCHANGED <<env, payload, file, stageIdx, step, locals, stacks, emitted>>
    /\ UNCHANGED <<pipeVars, opsVars>>

\* new PipelineStack(app, "WorkoutTracer-PipelineStack", ...)
NewPipelineStack ==
    /\ pc = "main"
    /\ MainStatements[stmt] = "PipelineStack"
    /\ stacks' = Append(stacks,
                        StackRecord("PipelineStack", <<>>, NoHandles, {}, TRUE))
    /\ pc' = AfterStatement
    /\ stmt' = stmt + 1
    /\ UNCHANGED <<env, payload, file, envConfig, fileRead, stageIdx, step,
                   locals, emitted>>
    /\ UNCHANGED <<pipeVars, opsVars>>

\* for (const stage of Object.keys(envConfig)) { const config = ...;
\* const {...} = config; : Object.keys(null) and destructuring null throw.
LoopHead ==
    /\ pc = "main"
    /\ MainStatements[stmt] = "forLoop"
    /\ IF envConfig = Null
       THEN pc' = "crashed" /\ stmt' = stmt
       ELSE IF stageIdx > Len(envConfig.cfg.order)
       THEN pc' = AfterStatement /\ stmt' = stmt + 1
       ELSE IF RecordIsNull(envConfig.cfg, stageIdx)
       THEN pc' = "crashed" /\ stmt' = stmt
       ELSE pc' = "body" /\ stmt' = stmt
    /\ step' = 1
    /\ locals' = NoLocals
    /\ UNCHANGED <<env, payload, file, envConfig, fileRead, stageIdx, stacks,
                   emitted>>
    /\ UNCHANGED <<pipeVars, opsVars>>

\* One `new ...Stack(app, id, props)` of the loop body. A constructor given an
\* undefined handle throws when it dereferences it; one given an undefined
\* configuration field passes it on to the library, which may reject it.
NewStack(kind) ==
    /\ pc = "body"
    /\ step <= Len(StackSequence)
    /\ StackSequence[step] = kind
    /\ LET stage == envConfig.cfg.order[stageIdx]
           handles == HandleProps(kind, locals)
           missing == ConfigProps(kind) \ RecordFields(envConfig.cfg, stageIdx)
       IN  \E rejects \in BOOLEAN :
             /\ rejects => missing # {}
             /\ LET completed == ~rejects /\ ~DereferenceThrows(handles)
                    st == StackRecord(kind, stage, handles, missing, completed)
                IN  /\ stacks' = Append(stacks, st)
                    /\ locals' =
                         IF completed /\ LocalOf(kind) # "none"
                         THEN [locals EXCEPT ![LocalOf(kind)] =
                                 [kind |-> kind, stage |-> stage,
                                  outputs |-> st.outputs]]
                         ELSE locals
                    /\ pc' = IF ~completed THEN "crashed"
                             ELSE IF step = Len(StackSequence) THEN "main"
                             ELSE "body"
                    /\ step' = IF completed THEN step + 1 ELSE step
                    /\ stageIdx' = IF completed /\ step = Len(StackSequence)
                                   THEN stageIdx + 1 ELSE stageIdx
    /\ UNCHANGED <<env, payload, file, stmt, envConfig, fileRead, emitted>>
    /\ UNCHANGED <<pipeVars, opsVars>>

NewDatabaseStack == NewStack("DatabaseStack")
NewAuthStack == NewStack("AuthStack")
NewWebsiteStack == NewStack("WebsiteStack")
NewApiStack == NewStack("ApiStack")
NewApiDnsStack == NewStack("ApiDnsStack")

\* main returned: the app synthesizes on exit and writes one template per
\* stack of the tree. A process that threw writes nothing.
Synth ==
    /\ pc = "done"
    /\ emitted' = {StackId(stacks[i]) : i \in 1..Len(stacks)}
    /\ pc' = "synthesized"
    /\ UNCHANGED <<env, payload, file, stmt, envConfig, fileRead, stageIdx,
                   step, locals, stacks>>
    /\ UNCHANGED <<pipeVars, opsVars>>

----------------------------------------------------------------------------
(* Alarms *)

\* The length in minutes of one window of metric data: the period of the
\* metrics, Duration.minutes(5).
WindowMinutes == 5

\* treatMissingData of every alarm declared in the repository.
NOT_BREACHING == "notBreaching"

\* One cloudwatch.Alarm. periodMinutes is the period of its metric; a topic
\* of "none" is an alarm without that action. The alarms of the per-stage
\* stacks are declared once per stage with the same parameters; one stage's
\* are listed, without the stage suffix of their names.
AlarmDecl(id, metric, periodMinutes, threshold, evaluationPeriods, datapointsToAlarm, comparison, alarmTopic, okTopic) ==
    [id |-> id, metric |-> metric, periodMinutes |-> periodMinutes,
     threshold |-> threshold, evaluationPeriods |-> evaluationPeriods,
     datapointsToAlarm |-> datapointsToAlarm, comparison |-> comparison,
     treatMissingData |-> NOT_BREACHING,
     alarmTopic |-> alarmTopic, okTopic |-> okTopic]

\* addPipelineMonitoring: the alarms on the pipeline's stages and on the
\* three CodeBuild projects.
PipelineAlarms ==
    {AlarmDecl("WorkoutTracer-Staging-Deploy-Failed",
               "FailedActions/WorkoutTracer-Staging", 5, 0, 1, 1, "GT",
               "PipelineAlarmTopic", "none"),
     AlarmDecl("WorkoutTracer-Prod-Deploy-Failed",
               "FailedActions/WorkoutTracer-Prod", 5, 0, 1, 1, "GT",
               "PipelineAlarmTopic", "none"),
     AlarmDecl("WorkoutTracer-BuildProject-FailedBuilds",
               "FailedBuilds/BuildProject", 5, 0, 1, 1, "GT",
               "PipelineAlarmTopic", "none"),
     AlarmDecl("WorkoutTracer-StagingDeployProject-FailedBuilds",
               "FailedBuilds/StagingDeployProject", 30, 0, 1, 1, "GT",
               "PipelineAlarmTopic", "none"),
     AlarmDecl("WorkoutTracer-ProdDeployProject-FailedBuilds",
               "FailedBuilds/ProdDeployProject", 5, 0, 1, 1, "GT",
               "PipelineAlarmTopic", "none"),
     AlarmDecl("WorkoutTracer-Build-Stage-Failed",
               "FailedActions/WorkoutTracer-Build", 5, 0, 1, 1, "GT",
               "PipelineAlarmTopic", "none")}

\* The 4XX-rate alarm as declared by addApiMonitoring with the escalation
\* contacts and a 30 minute span (threshold 50, six periods).
Alarm4xx_SixPeriods ==
    AlarmDecl("WorkoutTracer-Api-4XXRateAlarm/six-periods", "4XXRate",
              5, 50, 6, 6, "GE", "ApiAlarmTopic", "ApiAlarmTopic")

\* The 4XX-rate alarm as declared by addApiMonitoring with the escalation
\* contacts and one period (threshold 40).
Alarm4xx_OnePeriod ==
    AlarmDecl("WorkoutTracer-Api-4XXRateAlarm/one-period", "4XXRate",
              5, 40, 1, 1, "GE", "ApiAlarmTopic", "ApiAlarmTopic")

\* The 4XX-rate alarm as declared by the addApiMonitoring of
\* api-dns-stack.ts: threshold 40, one period, no action.
Alarm4xx_NoAction ==
    AlarmDecl("WorkoutTracer-Api-4XXRateAlarm/no-action", "4XXRate",
              5, 40, 1, 1, "GE", "none", "none")

Alarm5xx ==
    AlarmDecl("WorkoutTracer-Api-5XXAlarm", "5XXError",
              5, 1, 1, 1, "GE", "ApiAlarmTopic", "ApiAlarmTopic")

\* The 5XX alarm as declared by the addApiMonitoring of api-dns-stack.ts:
\* the same parameters, no action.
Alarm5xx_NoAction ==
    AlarmDecl("WorkoutTracer-Api-5XXAlarm/no-action", "5XXError",
              5, 1, 1, 1, "GE", "none", "none")

ApiAlarms == {Alarm4xx_SixPeriods, Alarm4xx_OnePeriod, Alarm4xx_NoAction,
              Alarm5xx, Alarm5xx_NoAction}

\* addAuthMonitoring: the alarm on ERROR lines of the user event logger.
AuthAlarms ==
    {AlarmDecl("WorkoutTracer-UserEventLogger-ErrorAlarm", "ErrorCount",
               30, 0, 1, 1, "GT", "none", "none")}

Alarms == PipelineAlarms \cup ApiAlarms \cup AuthAlarms
AlarmIds == {a.id : a \in Alarms}
AlarmOf(id) == CHOOSE a \in Alarms : a.id = id

\* The subscriptions of each sns.Topic alarms publish to.
TopicSubscriptions(topic) ==
    CASE topic = "PipelineAlarmTopic" -> {}
      [] topic = "ApiAlarmTopic" -> {"email", "sms"}
      [] OTHER -> {}

\* The metrics: FailedActions of the pipeline by its StageName dimension
\* (the three the alarms read, then the four the pipeline's stages report
\* under), FailedBuilds by project, and those of the API and the logger.
Metrics == {"FailedActions/WorkoutTracer-Staging",
            "FailedActions/WorkoutTracer-Prod",
            "FailedActions/WorkoutTracer-Build",
            "FailedActions/Source", "FailedActions/ArtifactsBuild",
            "FailedActions/Staging", "FailedActions/Prod",
            "FailedBuilds/BuildProject", "FailedBuilds/StagingDeployProject",
            "FailedBuilds/ProdDeployProject",
            "4XXError", "Count", "5XXError", "ErrorCount"}

NoData == [has |-> FALSE, v |-> 0]
Data(n) == [has |-> TRUE, v |-> n]

\* A window in which nothing reported.
Quiet == [m \in Metrics |-> NoData]

\* A window in which one metric reported n.
Reported(metric, n) == [m \in Metrics |-> IF m = metric THEN Data(n) ELSE NoData]

\* A window of API traffic: total requests, of which fourxx were answered
\* 4XX and fivexx 5XX.
Traffic(total, fourxx, fivexx) ==
    [m \in Metrics |->
        CASE m = "Count" -> Data(total)
          [] m = "4XXError" -> Data(fourxx)
          [] m = "5XXError" -> Data(fivexx)
          [] OTHER -> NoData]

\* The components that emit metric data. A failed action of the pipeline
\* is reported with the stageName of the stage it ran in.
MetricSources == {"FailedActions/Source", "FailedActions/ArtifactsBuild",
                  "FailedActions/Staging", "FailedActions/Prod",
                  "FailedBuilds/BuildProject",
                  "FailedBuilds/StagingDeployProject",
                  "FailedBuilds/ProdDeployProject",
                  "ApiGateway", "UserEventLogger"}

\* What a component may report in one window.
SamplesOf(source) ==
    CASE source = "ApiGateway" ->
            {Quiet, Traffic(100, 39, 0), Traffic(100, 40, 0),
             Traffic(100, 50, 0), Traffic(100, 0, 1)}
      [] source = "UserEventLogger" ->
            {Quiet, Reported("ErrorCount", 1), Reported("ErrorCount", 2)}
      [] source \in Metrics ->
            {Quiet, Reported(source, 0), Reported(source, 1)}
      [] OTHER -> {}

RECURSIVE SumWindows(_, _, _, _)
\* statistic: "Sum" over the windows lo..hi.
SumWindows(hist, metric, lo, hi) ==
    IF lo > hi THEN 0
    ELSE (IF hist[hi][metric].has THEN hist[hi][metric].v ELSE 0)
         + SumWindows(hist, metric, lo, hi - 1)

HasData(hist, metric, lo, hi) == \E w \in lo..hi : hist[w][metric].has

Compare(comparison, value, threshold) ==
    CASE comparison = "GT" -> value > threshold
      [] comparison = "GE" -> value >= threshold

\* Whether the alarm's k-th most recent period (k = 0 the latest) breaches.
\* A period without data is missing, which NOT_BREACHING counts as not
\* breaching. The 4XX rate is 100 * (fourxx / total), compared without
\* rounding; it has no value when there was no request.
Breaching(a, hist, k) ==
    LET p == a.periodMinutes \div WindowMinutes
        hi == Len(hist) - k * p
        lo == IF hi - p + 1 < 1 THEN 1 ELSE hi - p + 1
    IN  IF a.metric = "4XXRate"
        THEN /\ HasData(hist, "4XXError", lo, hi)
             /\ HasData(hist, "Count", lo, hi)
             /\ SumWindows(hist, "Count", lo, hi) > 0
             /\ Compare(a.comparison,
                        100 * SumWindows(hist, "4XXError", lo, hi),
                        a.threshold * SumWindows(hist, "Count", lo, hi))
        ELSE /\ HasData(hist, a.metric, lo, hi)
             /\ Compare(a.comparison, SumWindows(hist, a.metric, lo, hi),
                        a.threshold)

\* The state CloudWatch gives the alarm: ALARM when at least
\* datapointsToAlarm of the last evaluationPeriods periods breach.
AlarmValue(a, hist) ==
    IF Cardinality({k \in 0..(a.evaluationPeriods - 1) : Breaching(a, hist, k)})
          >= a.datapointsToAlarm
    THEN "ALARM" ELSE "OK"

InitAlarmsIdle ==
    /\ metricSource = "none"
    /\ datapoints = <<>>
    /\ pending = FALSE
    /\ alarmState = [id \in AlarmIds |-> "INSUFFICIENT_DATA"]
    /\ alarmHistory = {}

----------------------------------------------------------------------------
(* The REST API of a stage *)

\* One method of the API: the resource path (its last segment "{proxy+}"
\* for a greedy resource), the HTTP method or "ANY", and authorizationType.
ApiMethod(path, method, auth) == [path |-> path, method |-> method, auth |-> auth]

\* Mutant: the catch-all proxy method declared without the authorizer.
Mut_RoutedApiMethods ==
    {ApiMethod(<<"strava", "webhook">>, "GET", "NONE"),
     ApiMethod(<<"strava", "webhook">>, "POST", "NONE"),
     ApiMethod(<<"strava", "profile", "callback">>, "POST", "COGNITO"),
     ApiMethod(<<"docs">>, "GET", "NONE"),
     ApiMethod(<<"docs", "{proxy+}">>, "ANY", "NONE"),
     ApiMethod(<<"robots.txt">>, "GET", "NONE"),
     ApiMethod(<<"openapi.json">>, "GET", "NONE"),
     ApiMethod(<<"{proxy+}">>, "ANY", "NONE")}

\* The methods ApiStack adds with addMethod (LambdaRestApi with
\* proxy: false).
RoutedApiMethods ==
    {ApiMethod(<<"strava", "webhook">>, "GET", "NONE"),
     ApiMethod(<<"strava", "webhook">>, "POST", "NONE"),
     ApiMethod(<<"strava", "profile", "callback">>, "POST", "COGNITO"),
     ApiMethod(<<"docs">>, "GET", "NONE"),
     ApiMethod(<<"docs", "{proxy+}">>, "ANY", "NONE"),
     ApiMethod(<<"robots.txt">>, "GET", "NONE"),
     ApiMethod(<<"openapi.json">>, "GET", "NONE"),
     ApiMethod(<<"{proxy+}">>, "ANY", "COGNITO")}

\* The resources of that API: the root, and one per addResource.
RoutedApiResources ==
    {<<>>, <<"strava">>, <<"strava", "webhook">>, <<"strava", "profile">>,
     <<"strava", "profile", "callback">>, <<"docs">>, <<"docs", "{proxy+}">>,
     <<"robots.txt">>, <<"openapi.json">>, <<"{proxy+}">>}

\* The variant of ApiStack that declares LambdaRestApi with proxy: true:
\* ANY on the root and on {proxy+}, with defaultMethodOptions.
ProxyApiMethods ==
    {ApiMethod(<<>>, "ANY", "COGNITO"),
     ApiMethod(<<"{proxy+}">>, "ANY", "COGNITO")}

ProxyApiResources == {<<>>, <<"{proxy+}">>}

ApiDeclarations == {"routed", "proxy"}

\* defaultCorsPreflightOptions: an OPTIONS method without authorization on
\* every resource.
CorsPreflightMethods(resources) ==
    {ApiMethod(p, "OPTIONS", "NONE") : p \in resources}

MethodsOf(api) ==
    IF api = "routed"
    THEN RoutedApiMethods \cup CorsPreflightMethods(RoutedApiResources)
    ELSE ProxyApiMethods \cup CorsPreflightMethods(ProxyApiResources)

ResourcesOf(api) ==
    IF api = "routed" THEN RoutedApiResources ELSE ProxyApiResources

IsGreedy(resource) ==
    Len(resource) > 0 /\ resource[Len(resource)] = "{proxy+}"

\* Whether the resource matches the request path: the same path, or a
\* greedy resource whose parent is a proper prefix of it.
ResourceMatches(resource, path) ==
    \/ resource = path
    \/ /\ IsGreedy(resource)
       /\ Len(path) >= Len(resource)
       /\ SubSeq(path, 1, Len(resource) - 1)
             = SubSeq(resource, 1, Len(resource) - 1)

\* The gateway prefers the exact resource, then the greedy resource with
\* the longest parent.
Specificity(resource, path) ==
    IF resource = path /\ ~IsGreedy(resource) THEN Len(path) + 1
    ELSE Len(resource)

NoRoute == <<"no route">>

RouteOf(api, path) ==
    LET matching == {res \in ResourcesOf(api) : ResourceMatches(res, path)}
    IN  IF matching = {} THEN NoRoute
        ELSE CHOOSE res \in matching :
                \A other \in matching :
                    Specificity(other, path) <= Specificity(res, path)

\* The authorizationType of the method serving the request on its resource:
\* the method of that name, else ANY, else there is no method.
AuthorizationOf(api, path, method) ==
    LET res == RouteOf(api, path)
        exact == {m \in MethodsOf(api) : m.path = res /\ m.method = method}
        any == {m \in MethodsOf(api) : m.path = res /\ m.method = "ANY"}
    IN  IF exact # {} THEN (CHOOSE m \in exact : TRUE).auth
        ELSE IF any # {} THEN (CHOOSE m \in any : TRUE).auth
        ELSE "no method"

\* What the Authorization header of a request carries: nothing, a token of
\* the stage's user pool, or a token of another user pool.
Tokens == {"none", "own-pool", "other-pool"}

\* CognitoUserPoolsAuthorizer with cognitoUserPools: [userPool].
CognitoAllows(token) == token = "own-pool"

RequestPaths ==
    {<<>>, <<"strava", "webhook">>, <<"strava", "profile">>,
     <<"strava", "profile", "callback">>, <<"docs">>,
     <<"docs", "assets", "app.js">>, <<"robots.txt">>, <<"openapi.json">>,
     <<"users", "me">>}

HttpMethods == {"GET", "POST", "DELETE", "OPTIONS"}

Chars_staging == <<"s","t","a","g","i","n","g">>

\* The Origin header of a cross-origin request.
Origins == {"https://workouttracer.com", "https://staging.workouttracer.com",
            "http://localhost:8080", "https://other.example"}

\* defaultCorsPreflightOptions.allowOrigins of each declaration of the API;
\* Cors.ALL_ORIGINS is ["*"].
allowOrigins(api, stage) ==
    IF api = "proxy" THEN <<"*">>
    ELSE IF toLowerCase(stage) = Chars_prod
         THEN <<"https://workouttracer.com">>
    ELSE IF toLowerCase(stage) = Chars_staging
         THEN <<"https://staging.workouttracer.com", "http://localhost:8080">>
    ELSE <<"http://localhost:8080">>

\* The Access-Control-Allow-Origin header of the preflight answer: "*" for
\* all origins, the request's origin when it is in the list, else the first
\* origin of the list.
AccessControlAllowOrigin(api, stage, origin) ==
    LET allowed == allowOrigins(api, stage)
    IN  IF allowed = <<"*">> THEN "*"
        ELSE IF \E i \in 1..Len(allowed) : allowed[i] = origin THEN origin
        ELSE allowed[1]

InitApiIdle == apiLog = <<>>

----------------------------------------------------------------------------
(* The rate-limited batcher queue *)

\* Mutant: one more receive allowed before the redrive.
Mut_maxReceiveCount == 5 + 1

\* deadLetterQueue.maxReceiveCount of WorkoutTracer-RateLimitedBatcherQueue.
maxReceiveCount == 5

\* Mutant: the queue declared without visibilityTimeout, which leaves the
\* queue service's default of 30 seconds.
Mut_visibilityTimeout == 60 \div 2

\* visibilityTimeout of WorkoutTracer-RateLimitedBatcherQueue, in seconds.
visibilityTimeout == 1800

\* The functions granted queue.grantConsumeMessages, and the timeout of
\* each in seconds (Duration.minutes(15)).
Consumers == {"BatchUpdateWorkoutsLambda", "StravaOnboardingLambda"}
FunctionTimeout(f) ==
    CASE f = "BatchUpdateWorkoutsLambda" -> 15 * 60
      [] f = "StravaOnboardingLambda" -> 15 * 60

\* The seconds that pass in one step of time.
TickSeconds == (15 * 60) \div 2

MessageIds == 1..MaxMsgs

\* A message of the main queue: whether it is visible, how often it was
\* received, the seconds left of its visibility timeout, and the seconds for
\* which the invocation that received it last may still be running.
Message(visible, receiveCount, invisibleLeft, holderLeft) ==
    [visible |-> visible, receiveCount |-> receiveCount,
     invisibleLeft |-> invisibleLeft, holderLeft |-> holderLeft]

NoMessages == [m \in {} |-> Message(TRUE, 0, 0, 0)]

InitQueueIdle ==
    /\ sentIds = {}
    /\ mainQueue = NoMessages
    /\ dlq = {}
    /\ deliveries = [m \in MessageIds |-> 0]

InitOpsIdle == InitAlarmsIdle /\ InitApiIdle /\ InitQueueIdle

NoExecutions == <<>>
NoRequests == <<>>

InitPipelineIdle ==
    /\ executions = NoExecutions
    /\ requests = NoRequests
    /\ invocations = {}

InitSynth ==
    /\ env \in EnvChoices
    /\ \E c \in ConfigMaps :
         /\ payload \in {Unset, [kind |-> "empty", cfg |-> EmptyMap],
                         [kind |-> "malformed", cfg |-> EmptyMap], Null,
                         [kind |-> "map", cfg |-> c]}
         /\ file \in {Unreadable, [kind |-> "malformed", cfg |-> EmptyMap],
                      Null, [kind |-> "map", cfg |-> c]}
    /\ pc = "main"
    /\ stmt = 1
    /\ envConfig = NotLoaded
    /\ fileRead = FALSE
    /\ stageIdx = 1
    /\ step = 1
    /\ locals = NoLocals
    /\ stacks = <<>>
    /\ emitted = {}

Init == InitSynth /\ InitPipelineIdle /\ InitOpsIdle

Next ==
    \/ LoadConfig
    \/ NewPipelineStack
    \/ LoopHead
    \/ NewDatabaseStack
    \/ NewAuthStack
    \/ NewWebsiteStack
    \/ NewApiStack
    \/ NewApiDnsStack
    \/ Synth

Spec == Init /\ [][Next]_vars

----------------------------------------------------------------------------
(* The pipeline *)

\* pipelineName of the codepipeline.Pipeline.
PipelineName == "WorkoutTracerPipeline"

\* Mutant: the Prod stage added before the Staging stage.
Mut_PipelineStages_ProdFirst ==
    <<[stageName |-> "Source", actions |-> <<"GitHub_Source">>],
      [stageName |-> "ArtifactsBuild", actions |-> <<"BuildAndPackage">>],
      [stageName |-> "Prod", actions |-> <<"Deploy-Prod">>],
      [stageName |-> "Staging", actions |-> <<"Deploy-Staging">>]>>

\* Mutant: both deploy actions added to one stage.
Mut_PipelineStages_OneDeployStage ==
    <<[stageName |-> "Source", actions |-> <<"GitHub_Source">>],
      [stageName |-> "ArtifactsBuild", actions |-> <<"BuildAndPackage">>],
      [stageName |-> "Deploy", actions |-> <<"Deploy-Staging", "Deploy-Prod">>]>>

\* The pipeline.addStage calls of the PipelineStack constructor, in order,
\* each with the actionName of its actions.
PipelineStages ==
    <<[stageName |-> "Source", actions |-> <<"GitHub_Source">>],
      [stageName |-> "ArtifactsBuild", actions |-> <<"BuildAndPackage">>],
      [stageName |-> "Staging", actions |-> <<"Deploy-Staging">>],
      [stageName |-> "Prod", actions |-> <<"Deploy-Prod">>]>>

\* The artifacts: an artifact is the output named name of an action of
\* execution e, <<name, e>>; the pipeline stores the artifacts of each
\* execution apart in its artifact bucket.
NoArtifact == <<"none", 0>>

\* outputs of each action: new codepipeline.Artifact("SourceOutput") and
\* ("BuildOutput").
ActionOutput(action) ==
    CASE action = "GitHub_Source" -> "SourceOutput"
      [] action = "BuildAndPackage" -> "BuildOutput"
      [] OTHER -> "none"

\* Mutant: the Prod deploy action given the source artifact as its input.
Mut_ActionInput(action) ==
    CASE action = "BuildAndPackage" -> "SourceOutput"
      [] action = "Deploy-Staging" -> "BuildOutput"
      [] action = "Deploy-Prod" -> "SourceOutput"
      [] OTHER -> "none"

\* input of each action.
ActionInput(action) ==
    CASE action = "BuildAndPackage" -> "SourceOutput"
      [] action = "Deploy-Staging" -> "BuildOutput"
      [] action = "Deploy-Prod" -> "BuildOutput"
      [] OTHER -> "none"

\* The artifact named name that the actions logged so far in an execution
\* have produced: what an action of that execution with that input reads.
ArtifactOf(log, name) ==
    IF \E i \in 1..Len(log) : log[i].output[1] = name
    THEN log[CHOOSE i \in 1..Len(log) : log[i].output[1] = name].output
    ELSE NoArtifact

\* A new execution: it waits for the first stage.
NewExecution(trigger) ==
    [status |-> "InProgress", stage |-> 1, phase |-> "waiting", act |-> 1,
     visited |-> <<>>, log |-> <<>>, trigger |-> trigger]

\* A stage holds one execution at a time.
StageOccupied(k) ==
    \E e \in 1..Len(executions) :
        /\ executions[e].status = "InProgress"
        /\ executions[e].phase = "running"
        /\ executions[e].stage = k

\* The GitHub source action starts an execution on a push to main.
StartBySource ==
    /\ Len(executions) < MaxExec
    /\ executions' = Append(executions, NewExecution(0))
    /\ UNCHANGED <<requests, invocations>>
    /\ UNCHANGED <<synthVars, opsVars>>

\* An execution enters the stage it waits for once the stage is free.
EnterStage(e) ==
    /\ executions[e].status = "InProgress"
    /\ executions[e].phase = "waiting"
    /\ ~StageOccupied(executions[e].stage)
    /\ executions' =
         [executions EXCEPT
            ![e].phase = "running",
            ![e].act = 1,
            ![e].visited =
                Append(@, PipelineStages[executions[e].stage].stageName)]
    /\ UNCHANGED <<requests, invocations>>
    /\ UNCHANGED <<synthVars, opsVars>>

\* The executions, other than e, that a newer execution arriving to wait
\* for stage k replaces.
SupersededBy(e, k) ==
    {o \in 1..Len(executions) :
        /\ o < e
        /\ executions[o].status = "InProgress"
        /\ executions[o].phase = "waiting"
        /\ executions[o].stage = k}

\* One action of the current stage runs and reports its result. A failure
\* fails the execution, which leaves the pipeline; the success of a stage's
\* last action moves the execution on to wait for the next stage, or ends it.
RunAction(e, result) ==
    /\ executions[e].status = "InProgress"
    /\ executions[e].phase = "running"
    /\ LET x == executions[e]
           stage == PipelineStages[x.stage]
           action == stage.actions[x.act]
           entry == [stage |-> stage.stageName, action |-> action,
                     result |-> result,
                     input |-> ArtifactOf(x.log, ActionInput(action)),
                     output |-> IF result = "Succeeded"
                                   /\ ActionOutput(action) # "none"
                                THEN <<ActionOutput(action), e>>
                                ELSE NoArtifact]
           logged == [x EXCEPT !.log = Append(@, entry)]
           after ==
             IF result = "Failed" THEN [logged EXCEPT !.status = "Failed"]
             ELSE IF x.act < Len(stage.actions)
                  THEN [logged EXCEPT !.act = x.act + 1]
             ELSE IF x.stage = Len(PipelineStages)
                  THEN [logged EXCEPT !.status = "Succeeded"]
             ELSE [logged EXCEPT !.stage = x.stage + 1, !.phase = "waiting"]
           moved == after.status = "InProgress" /\ after.phase = "waiting"
       IN  executions' =
             [o \in 1..Len(executions) |->
                IF o = e THEN after
                ELSE IF moved /\ o \in SupersededBy(e, after.stage)
                     THEN [executions[o] EXCEPT !.status = "Superseded"]
                ELSE executions[o]]
    /\ UNCHANGED <<requests, invocations>>
    /\ UNCHANGED <<synthVars, opsVars>>

----------------------------------------------------------------------------
(* The webhook *)

\* The secret the authorizer reads, and one it does not.
SharedSecret == "GithubToken"
Secrets == {SharedSecret, "other"}
Bodies == {"push-a", "push-b"}

Missing == <<"missing", "missing">>

\* HMAC-SHA256 of the raw body under a key, as an ideal MAC: equal exactly
\* for equal key and body.
Hmac(key, body) == <<key, body>>

\* The X-Hub-Signature-256 header of a request: absent, or some digest.
Signatures == {Missing} \cup {Hmac(k, b) : k \in Secrets, b \in Bodies}

\* Mutant: the method added without its authorizer.
Mut_MethodAuthorizationType == "NONE"

\* authorizationType and authorizer of the POST method of /github-webhook.
MethodAuthorizationType == "CUSTOM"

\* identitySources of the request authorizer.
AuthorizerIdentitySources == {"X-Hub-Signature-256"}

\* Mutant: the authorizer left at the default resultsCacheTtl of 5 minutes.
Mut_AuthorizerCacheTtl == 5 * 60

\* resultsCacheTtl of the request authorizer, in seconds.
AuthorizerCacheTtl == 0

\* The authorizer function: allow exactly when the header equals the HMAC
\* of the raw body under the shared secret.
AuthorizerAllows(sig, body) == sig = Hmac(SharedSecret, body)

\* PIPELINE in the environment of the pipeline-deploy function.
DeployLambdaPipeline == "WorkoutTracerPipeline"

\* Mutant: the pipeline-deploy function without the statement that lets it
\* start the pipeline.
Mut_DeployLambdaPolicy == {}

\* The actions on the pipeline WorkoutTracerPipeline that the role of the
\* pipeline-deploy function is granted by addToRolePolicy.
DeployLambdaPolicy == {"codepipeline:StartPipelineExecution"}

\* The seconds that may pass between one request and the next.
Gaps == {0, 1}

\* The time of the latest request.
Now == IF requests = <<>> THEN 0 ELSE requests[Len(requests)].at

\* The authorizer results the gateway holds at time t for the identity
\* source value sig: the policy of each earlier call of the authorizer with
\* that value which is younger than resultsCacheTtl. With a TTL of 0 the
\* gateway caches nothing.
CachedPolicies(sig, t) ==
    {requests[r].policy :
        r \in {q \in 1..Len(requests) :
                  /\ requests[q].authorizerCalled
                  /\ requests[q].sig = sig
                  /\ t - requests[q].at < AuthorizerCacheTtl}}

\* The policy the authorizer function returns.
AuthorizerPolicy(sig, body) ==
    IF AuthorizerAllows(sig, body) THEN "Allow" ELSE "Deny"

\* What the method does with a request before the integration: "allow",
\* or the status of the rejection. A request lacking an identity source is
\* answered 401 by the gateway, which does not call the authorizer; a
\* cached policy for the identity source value is used without calling it.
Gate(sig, body, t) ==
    IF MethodAuthorizationType # "CUSTOM" THEN "allow"
    ELSE IF "X-Hub-Signature-256" \in AuthorizerIdentitySources /\ sig = Missing
    THEN "401"
    ELSE LET policy ==
                 IF CachedPolicies(sig, t) # {}
                 THEN CHOOSE c \in CachedPolicies(sig, t) : TRUE
                 ELSE AuthorizerPolicy(sig, body)
         IN  IF policy = "Allow" THEN "allow" ELSE "403"

\* POST /github-webhook, gap seconds after the previous request: the
\* authorizer, then the pipeline-deploy function (which starts the pipeline
\* named in PIPELINE), then the response.
PostWebhook(sig, body, gap) ==
    /\ Len(requests) < MaxReq
    /\ LET r == Len(requests) + 1
           t == Now + gap
           gate == Gate(sig, body, t)
           called == /\ MethodAuthorizationType = "CUSTOM"
                     /\ gate # "401"
                     /\ CachedPolicies(sig, t) = {}
           starts == /\ gate = "allow"
                     /\ DeployLambdaPipeline = PipelineName
                     /\ "codepipeline:StartPipelineExecution" \in DeployLambdaPolicy
       IN  /\ starts => Len(executions) < MaxExec
           /\ requests' =
                Append(requests,
                       [sig |-> sig, body |-> body, at |-> t,
                        authorizerCalled |-> called,
                        policy |-> IF called THEN AuthorizerPolicy(sig, body)
                                   ELSE "none",
                        code |-> IF gate # "allow" THEN gate
                                 ELSE IF starts THEN "200" ELSE "502"])
           /\ invocations' =
                IF gate = "allow" THEN invocations \cup {r} ELSE invocations
           /\ executions' =
                IF starts THEN Append(executions, NewExecution(r))
                ELSE executions
    /\ UNCHANGED <<synthVars, opsVars>>

InitSynthIdle ==
    /\ env = AllUnset
    /\ payload = Unset
    /\ file = Unreadable
    /\ pc = "deployed"
    /\ stmt = 1
    /\ envConfig = NotLoaded
    /\ fileRead = FALSE
    /\ stageIdx = 1
    /\ step = 1
    /\ locals = NoLocals
    /\ stacks = <<>>
    /\ emitted = {}

InitPipeline == InitSynthIdle /\ InitPipelineIdle /\ InitOpsIdle

NextPipeline ==
    \/ StartBySource
    \/ \E e \in 1..Len(executions) : EnterStage(e)
    \/ \E e \in 1..Len(executions), result \in {"Succeeded", "Failed"} :
          RunAction(e, result)
    \/ \E sig \in Signatures, body \in Bodies, gap \in Gaps :
          PostWebhook(sig, body, gap)

SpecPipeline == InitPipeline /\ [][NextPipeline]_vars

----------------------------------------------------------------------------
(* Properties of the pipeline and of the webhook *)

\* Whether log entries 1..(i-1) hold the success of every action of the
\* stage named n.
StageSucceededBefore(x, n, i) ==
    \E k \in 1..Len(PipelineStages) :
        /\ PipelineStages[k].stageName = n
        /\ \A a \in 1..Len(PipelineStages[k].actions) :
              \E j \in 1..(i - 1) :
                  /\ x.log[j].stage = n
                  /\ x.log[j].action = PipelineStages[k].actions[a]
                  /\ x.log[j].result = "Succeeded"

\* The stages that come before the stage named n in the pipeline.
StagesBefore(n) ==
    {PipelineStages[j].stageName : j \in
        {j \in 1..Len(PipelineStages) :
            \E k \in (j + 1)..Len(PipelineStages) :
                PipelineStages[k].stageName = n}}

\* C1: in every execution a failed action is the last action that ran and
\* fails the execution; an action of a phase runs only after every action
\* of every earlier phase succeeded; and an action of the Prod phase runs
\* only after every action of the Staging phase succeeded.
C1_FailureHaltsExecution ==
    \A e \in 1..Len(executions) :
        LET x == executions[e]
        IN  \A i \in 1..Len(x.log) :
              /\ x.log[i].result = "Failed" =>
                    (i = Len(x.log) /\ x.status = "Failed")
              /\ \A n \in StagesBefore(x.log[i].stage) :
                    StageSucceededBefore(x, n, i)
              /\ x.log[i].stage = "Prod" => StageSucceededBefore(x, "Staging", i)

C1_Witness ==
    \E e, f \in 1..Len(executions) :
        /\ executions[e].status = "Failed"
        /\ executions[e].log[Len(executions[e].log)].stage = "Staging"
        /\ \A i \in 1..Len(executions[e].log) :
              executions[e].log[i].stage # "Prod"
        /\ \E i \in 1..Len(executions[f].log) :
              executions[f].log[i].stage = "Prod"

\* C2: the pipeline's phases are Source, ArtifactsBuild, Staging, Prod in
\* that order, and the phases an execution has entered are always a prefix
\* of that list: all four when it succeeded.
C2_FourPhasesInOrder ==
    LET phases == <<"Source", "ArtifactsBuild", "Staging", "Prod">>
    IN  /\ [k \in 1..Len(PipelineStages) |-> PipelineStages[k].stageName] = phases
        /\ \A e \in 1..Len(executions) :
              /\ IsPrefix(executions[e].visited, phases)
              /\ executions[e].status = "Succeeded" =>
                    executions[e].visited = phases

C2_Witness ==
    \E e \in 1..Len(executions) :
        /\ executions[e].status = "Succeeded"
        /\ Len(executions[e].visited) = 4
        /\ Len(executions[e].log) = 4

BadSignature(r) == r.sig # Hmac(SharedSecret, r.body)

\* C3: a POST whose signature is missing or is not the HMAC of its body
\* under the shared secret is answered 401 or 403, and handling it neither
\* invokes the deploy function nor changes the executions.
C3_BadSignatureNoSideEffect ==
    [][(Len(requests') = Len(requests) + 1
        /\ BadSignature(requests'[Len(requests')]))
       => /\ executions' = executions
          /\ invocations' = invocations
          /\ requests'[Len(requests')].code \in {"401", "403"}]_vars

C3_Witness ==
    /\ Len(requests) = 2
    /\ requests[1].sig = Hmac(SharedSecret, "push-a")
    /\ requests[1].body = "push-b"
    /\ requests[1].code = "403"
    /\ requests[2].sig = Hmac(SharedSecret, "push-b")
    /\ requests[2].body = "push-b"
    /\ invocations = {2}
    /\ Len(executions) = 1
    /\ executions[1].trigger = 2

Runs(e, action) ==
    {i \in 1..Len(executions[e].log) : executions[e].log[i].action = action}

\* C27: in every execution the Staging and the Prod deploy action read the
\* BuildOutput artifact that the ArtifactsBuild stage of the same execution
\* produced, and the artifact Prod reads is one the Staging action of the
\* same execution has deployed.
C27_DeploysConsumeOwnBuildArtifact ==
    \A e \in 1..Len(executions) :
        LET log == executions[e].log
        IN  /\ \A i \in Runs(e, "Deploy-Staging") \cup Runs(e, "Deploy-Prod") :
                  /\ log[i].input = <<"BuildOutput", e>>
                  /\ \E b \in Runs(e, "BuildAndPackage") :
                        b < i /\ log[b].output = log[i].input
            /\ \A i \in Runs(e, "Deploy-Prod") :
                  \E j \in Runs(e, "Deploy-Staging") :
                      /\ j < i
                      /\ log[j].result = "Succeeded"
                      /\ log[j].input = log[i].input

C27_Witness ==
    /\ Len(executions) = 2
    /\ executions[1].status = "Succeeded"
    /\ executions[2].status = "Succeeded"
    /\ \E i \in Runs(1, "Deploy-Prod") :
          executions[1].log[i].input = <<"BuildOutput", 1>>
    /\ \E i \in Runs(2, "Deploy-Prod") :
          executions[2].log[i].input = <<"BuildOutput", 2>>

\* C26: every POST that carries the signature header is judged by a call of
\* the authorizer for that request: a request that repeats the signature
\* header of an earlier, allowed request with a different body is rejected
\* with 403 and is not handed to the pipeline-deploy function.
C26_AuthorizerCalledForEveryRequest ==
    /\ \A r \in 1..Len(requests) :
          requests[r].sig # Missing =>
              /\ requests[r].authorizerCalled
              /\ requests[r].policy = AuthorizerPolicy(requests[r].sig,
                                                       requests[r].body)
    /\ \A r1, r2 \in 1..Len(requests) :
          (/\ r1 < r2
           /\ requests[r1].sig = requests[r2].sig
           /\ requests[r1].body # requests[r2].body
           /\ requests[r1].code = "200")
          => (requests[r2].code = "403" /\ r2 \notin invocations)

C26_Witness ==
    /\ Len(requests) = 2
    /\ requests[1].sig = Hmac(SharedSecret, "push-a")
    /\ requests[1].body = "push-a"
    /\ requests[1].code = "200"
    /\ requests[2].sig = Hmac(SharedSecret, "push-a")
    /\ requests[2].body = "push-b"
    /\ requests[2].at = requests[1].at
    /\ requests[2].authorizerCalled
    /\ requests[2].code = "403"
    /\ invocations = {1}

----------------------------------------------------------------------------
(* The deploy jobs of the pipeline stack *)

DeployJobs == {"staging", "prod"}

\* The stage each deploy job names in its build command.
DeployStage(job) ==
    CASE job = "staging" -> Chars_Staging
      [] job = "prod" -> Chars_Prod

\* const stackToDeploy = [...], the same in both create...DeployProject.
stackToDeploy == <<"DatabaseStack", "AuthStack", "ApiStack", "ApiDnsStack">>

\* stackToDeploy.map(stack => `WorkoutTracer-${stack}-<Stage>`): the names
\* the job created by pipelineBuildProjects.ts hands to `cdk deploy`.
DeployTargetsExplicit(job) ==
    {StageStackId(stackToDeploy[i], DeployStage(job)) :
        i \in 1..Len(stackToDeploy)}

\* cdk list | grep '<Stage>' : the names the job declared inline in the
\* pipeline stack hands to `cdk deploy`, given the identifiers cdk list prints.
DeployTargetsGrep(job, listed) ==
    {id \in listed : Contains(id, DeployStage(job))}

\* cdk list: the identifiers of the stacks of the app.
CdkList == {StackId(stacks[i]) : i \in 1..Len(stacks)}

----------------------------------------------------------------------------
(* Properties of the synthesis run *)

PerStageKinds == {"DatabaseStack", "AuthStack", "WebsiteStack", "ApiStack",
                  "ApiDnsStack"}

\* The kinds of the stacks of one stage, in creation order.
KindsOfStage(s) ==
    LET own == SelectSeq(stacks, LAMBDA st : st.kind \in PerStageKinds
                                             /\ st.stage = s)
    IN  [i \in 1..Len(own) |-> own[i].kind]

Finished == pc \in {"done", "synthesized"}
ConfigLoaded == envConfig.kind = "map"
Keys == envConfig.cfg.order
Defective(i) == envConfig.cfg.defect[1] = i

\* C4: for every stage of the configuration map the stacks are created in
\* the order storage, identity, static-site, api-compute, api-dns: at any
\* time the stacks of a stage are a prefix of that order, and when main has
\* returned every stage of the map has all five.
C4_FixedStackOrder ==
    LET order == <<"DatabaseStack", "AuthStack", "WebsiteStack", "ApiStack",
                   "ApiDnsStack">>
    IN  /\ \A s \in StageNames : IsPrefix(KindsOfStage(s), order)
        /\ (Finished /\ ConfigLoaded) =>
              \A i \in 1..Len(Keys) : KindsOfStage(Keys[i]) = order

C4_Witness ==
    /\ pc = "synthesized"
    /\ Len(Keys) = 2
    /\ \A i \in 1..2 : Len(KindsOfStage(Keys[i])) = 5

\* C5: every handle a stack was given is defined and is an output of a stack
\* created earlier in the sequence of the same stage.
C5_HandlesFromEarlierStacks ==
    \A i \in 1..Len(stacks) :
        \A p \in DOMAIN stacks[i].inputs :
            LET h == stacks[i].inputs[p]
            IN  /\ h # Undefined
                /\ \E j \in 1..(i - 1) :
                      /\ stacks[j].kind = h.kind
                      /\ stacks[j].stage = h.stage
                      /\ stacks[j].stage = stacks[i].stage
                      /\ h.output \in stacks[j].outputs

C5_Witness ==
    \E i \in 1..Len(stacks) :
        /\ stacks[i].kind = "ApiDnsStack"
        /\ stacks[i].stage = Chars_Prod
        /\ stacks[i].inputs["api"].kind = "ApiStack"
        /\ \E j \in 1..Len(stacks) : stacks[j].kind = "ApiStack"
                                     /\ stacks[j].stage = Chars_Staging

\* C6 (the claim as stated): when the configuration map has no entry for a
\* stage a deploy job names, synthesis fails and nothing is emitted.
C6_MissingDeployStageFailsSynthesis ==
    (ConfigLoaded /\ \E job \in DeployJobs :
                        \A i \in 1..Len(Keys) : Keys[i] # DeployStage(job))
    => (pc # "synthesized" /\ emitted = {})

\* C7: in automated context with CDK_ENV_CONFIG absent the loader throws:
\* the file is not read and no configuration, not even an empty one, is
\* returned.
C7_AbsentPayloadIsFatal ==
    (isCICD(env) /\ PayloadAbsent(payload) /\ envConfig # NotLoaded)
    => (pc = "failed" /\ envConfig = Thrown /\ ~fileRead)

C7_Witness ==
    /\ pc = "failed"
    /\ isCICD(env)
    /\ payload = Unset
    /\ file.kind = "map"
    /\ Len(file.cfg.order) = 2

\* C8: when the loader has failed, no stack, the pipeline stack included,
\* is in the construct tree and nothing is emitted.
C8_LoaderFailureDeclaresNothing ==
    pc = "failed" => (stacks = <<>> /\ emitted = {})

C8_Witness ==
    /\ pc = "failed"
    /\ ~isCICD(env)
    /\ file.kind = "malformed"
    /\ stacks = <<>>

\* C9 (the claim as stated): a stage whose record lacks a field a stack
\* requires makes the composition fail, with no stack of that stage emitted.
C9_DefectiveStageFailsAtomically ==
    ConfigLoaded =>
        \A i \in 1..Len(Keys) :
            (Defective(i) /\ ~RecordIsNull(envConfig.cfg, i))
            => /\ pc # "synthesized"
               /\ \A k \in PerStageKinds : StageStackId(k, Keys[i]) \notin emitted

\* C9, the declaration layer: a run that ended leaves a defective stage
\* with no stack at all in the construct tree (refuted as well: the
\* storage stack is created before any field of the record is used).
C9_DefectiveStageNeverPartial ==
    (ConfigLoaded /\ pc \in {"crashed", "synthesized"}) =>
        \A i \in 1..Len(Keys) :
            (Defective(i) /\ ~RecordIsNull(envConfig.cfg, i))
            => KindsOfStage(Keys[i]) = <<>>

\* The stacks main creates for a stage.
StacksOfStage(s) == {StageStackId(k, s) : k \in PerStageKinds}

\* C10 (the claim as stated): every name a deploy job hands to `cdk deploy`
\* is a stack of that job's stage, for both declarations of the jobs.
C10_DeployTargetsOfOwnStageOnly ==
    Finished =>
        \A job \in DeployJobs :
            /\ DeployTargetsExplicit(job) \subseteq StacksOfStage(DeployStage(job))
            /\ DeployTargetsGrep(job, CdkList) \subseteq StacksOfStage(DeployStage(job))

\* C10 for the explicit lists alone, which do satisfy the claim.
C10_ExplicitTargetsOfOwnStageOnly ==
    \A job \in DeployJobs :
        /\ DeployTargetsExplicit(job) \subseteq StacksOfStage(DeployStage(job))
        /\ PipelineStackId \notin DeployTargetsExplicit(job)
        /\ \A other \in DeployJobs \ {job} :
              DeployTargetsExplicit(job) \cap StacksOfStage(DeployStage(other)) = {}

\* `cdk deploy <names>` without --exclusively: the named stacks of the app
\* together with the stacks whose outputs they consume.
CdkDeploySelection(targets) ==
    LET named == {i \in 1..Len(stacks) : StackId(stacks[i]) \in targets}
        needed == {j \in 1..Len(stacks) :
                      \E i \in named : \E p \in DOMAIN stacks[i].inputs :
                          /\ stacks[i].inputs[p] # Undefined
                          /\ stacks[i].inputs[p].kind = stacks[j].kind
                          /\ stacks[i].inputs[p].stage = stacks[j].stage}
    IN  {StackId(stacks[i]) : i \in named \cup needed}

\* C11 (the claim as stated): once main has returned, each deploy job whose
\* stage is in the configuration map deploys all five stacks of that stage,
\* for both declarations of the jobs.
C11_DeployTargetsComplete ==
    (Finished /\ ConfigLoaded) =>
        \A job \in DeployJobs :
            (\E i \in 1..Len(Keys) : Keys[i] = DeployStage(job)) =>
                /\ StacksOfStage(DeployStage(job))
                      \subseteq CdkDeploySelection(DeployTargetsExplicit(job))
                /\ StacksOfStage(DeployStage(job))
                      \subseteq CdkDeploySelection(DeployTargetsGrep(job, CdkList))

\* C11 for the jobs declared inline with grep, which do select all five.
C11_GrepTargetsComplete ==
    (Finished /\ ConfigLoaded) =>
        \A job \in DeployJobs :
            (\E i \in 1..Len(Keys) : Keys[i] = DeployStage(job)) =>
                StacksOfStage(DeployStage(job))
                    \subseteq CdkDeploySelection(DeployTargetsGrep(job, CdkList))

----------------------------------------------------------------------------
(* Physical names *)

Chars_UserTable == <<"U","s","e","r","T","a","b","l","e">>
Chars_UserPool == <<"U","s","e","r","P","o","o","l">>
Chars_Api == <<"A","p","i">>
Chars_ApiLambda == <<"A","p","i","L","a","m","b","d","a">>
Chars_bucket == <<"w","o","r","k","o","u","t","t","r","a","c","e","r","-",
                  "w","e","b","s","i","t","e","-","b","u","c","k","e","t","-">>
Chars_workouttracer == <<"w","o","r","k","o","u","t","t","r","a","c","e","r">>

\* The roles of the stage-suffixed physical names each stack declares
\* (tableName, userPoolName, functionName, restApiName).
PhysicalRoles(kind) ==
    CASE kind = "DatabaseStack" -> {Chars_UserTable}
      [] kind = "AuthStack" -> {Chars_UserPool}
      [] kind = "ApiStack" -> {Chars_ApiLambda, Chars_Api}
      [] OTHER -> {}

\* `WorkoutTracer-${role}-${stage}`
PhysicalName(role, stage) == Chars_Prefix \o role \o Chars_Dash \o stage

\* bucketName: `workouttracer-website-bucket-${stage.toLowerCase()}`
BucketName(stage) == Chars_bucket \o toLowerCase(stage)

\* domainPrefix: `workouttracer-${stage.toLowerCase()}`
DomainPrefix(stage) == Chars_workouttracer \o Chars_Dash \o toLowerCase(stage)

\* C12: the stack identifiers of the construct tree are pairwise distinct,
\* no per-stage stack has the pipeline stack's identifier, and two stacks
\* of the same role in different stages declare different
\* WorkoutTracer-<Role>-<Stage> names, none of them the pipeline stack's
\* identifier.
C12_DerivedNamesDistinct ==
    \A i, j \in 1..Len(stacks) :
        /\ i # j => StackId(stacks[i]) # StackId(stacks[j])
        /\ stacks[i].kind # "PipelineStack" =>
              /\ StackId(stacks[i]) # PipelineStackId
              /\ \A r \in PhysicalRoles(stacks[i].kind) :
                    PhysicalName(r, stacks[i].stage) # PipelineStackId
        /\ (i # j /\ stacks[i].kind = stacks[j].kind) =>
              \A r \in PhysicalRoles(stacks[i].kind) :
                  PhysicalName(r, stacks[i].stage) # PhysicalName(r, stacks[j].stage)

C12_Witness ==
    /\ pc = "synthesized"
    /\ Len(stacks) = 11
    /\ \E i, j \in 1..Len(stacks) :
          /\ stacks[i].kind = "DatabaseStack" /\ stacks[i].stage = Chars_Prod
          /\ stacks[j].kind = "DatabaseStack" /\ stacks[j].stage = Chars_PreProd

\* C13 (the claim as stated): two website stacks of different stages declare
\* different bucket names, and two identity stacks of different stages
\* declare different hosted login domain prefixes.
C13_LowercasedNamesDistinct ==
    \A i, j \in 1..Len(stacks) :
        (i # j /\ stacks[i].kind = stacks[j].kind) =>
            /\ stacks[i].kind = "WebsiteStack" =>
                  BucketName(stacks[i].stage) # BucketName(stacks[j].stage)
            /\ stacks[i].kind = "AuthStack" =>
                  DomainPrefix(stacks[i].stage) # DomainPrefix(stacks[j].stage)

----------------------------------------------------------------------------
(* Alarm evaluation *)

\* A component reports its metric data of the next 5-minute window.
PutMetricData(sample) ==
    /\ ~pending
    /\ Len(datapoints) < MaxWindows
    /\ sample \in SamplesOf(metricSource)
    /\ datapoints' = Append(datapoints, sample)
    /\ pending' = TRUE
    /\ UNCHANGED <<metricSource, alarmState, alarmHistory>>
    /\ UNCHANGED <<synthVars, pipeVars, apiLog, queueVars>>

\* The topic an alarm publishes to when it enters the state.
ActionTopic(a, state) ==
    CASE state = "ALARM" -> a.alarmTopic
      [] state = "OK" -> a.okTopic
      [] OTHER -> "none"

\* CloudWatch evaluates every alarm at the end of the window. An alarm whose
\* state changed runs the action of the new state: the SnsAction publishes
\* to its topic, which delivers to the topic's subscriptions.
EvaluateAlarms ==
    /\ pending
    /\ alarmState' = [id \in AlarmIds |-> AlarmValue(AlarmOf(id), datapoints)]
    /\ alarmHistory' = alarmHistory \cup
          {[alarm |-> id, window |-> Len(datapoints),
            state |-> alarmState'[id],
            topic |-> ActionTopic(AlarmOf(id), alarmState'[id]),
            endpoints |-> TopicSubscriptions(
                              ActionTopic(AlarmOf(id), alarmState'[id]))] :
             id \in {i \in AlarmIds : alarmState'[i] # alarmState[i]}}
    /\ pending' = FALSE
    /\ UNCHANGED <<metricSource, datapoints>>
    /\ UNCHANGED <<synthVars, pipeVars, apiLog, queueVars>>

InitAlarms ==
    /\ InitSynthIdle
    /\ InitPipelineIdle
    /\ metricSource \in MetricSources
    /\ datapoints = <<>>
    /\ pending = FALSE
    /\ alarmState = [id \in AlarmIds |-> "INSUFFICIENT_DATA"]
    /\ alarmHistory = {}
    /\ InitApiIdle
    /\ InitQueueIdle

NextAlarms ==
    \/ \E sample \in SamplesOf(metricSource) : PutMetricData(sample)
    \/ EvaluateAlarms

SpecAlarms == InitAlarms /\ [][NextAlarms]_vars

----------------------------------------------------------------------------
(* Properties of the alarms *)

Evaluated == ~pending /\ Len(datapoints) >= 1

\* Whether the alarm's metric reported more than zero in the latest
\* 5-minute window.
FailuresInLatestWindow(a) ==
    LET d == datapoints[Len(datapoints)][a.metric]
    IN  d.has /\ d.v > 0

\* C14 (the claim as stated): after each evaluation, every alarm of the
\* pipeline's phases and build jobs is in ALARM exactly when its failure
\* count over the latest 5-minute window is greater than 0.
C14_FailureAlarmsFollowFiveMinuteWindow ==
    Evaluated =>
        \A a \in PipelineAlarms :
            alarmState[a.id] = "ALARM" <=> FailuresInLatestWindow(a)

\* C14 for the alarms declared with a 5-minute period, which it holds for.
C14_FiveMinuteAlarmsExact ==
    Evaluated =>
        \A a \in PipelineAlarms :
            a.periodMinutes = WindowMinutes =>
                (alarmState[a.id] = "ALARM" <=> FailuresInLatestWindow(a))

\* C15 (the claim as stated): every change of an alarm to ALARM was
\* published to a topic that delivered it by email and by SMS.
C15_EveryBreachReachesEmailAndSms ==
    \A h \in alarmHistory :
        h.state = "ALARM" =>
            /\ h.topic # "none"
            /\ {"email", "sms"} \subseteq h.endpoints

\* C15 for the alarms of the API declared with the escalation contacts,
\* which it holds for.
C15_ApiTopicReachesEmailAndSms ==
    \A h \in alarmHistory :
        (h.state = "ALARM" /\ AlarmOf(h.alarm).alarmTopic = "ApiAlarmTopic") =>
            {"email", "sms"} \subseteq h.endpoints

\* Whether window w had requests and at least (at most) pct percent of them
\* were answered 4XX.
RateAtLeast(w, pct) ==
    /\ datapoints[w]["Count"].has
    /\ datapoints[w]["Count"].v > 0
    /\ 100 * datapoints[w]["4XXError"].v >= pct * datapoints[w]["Count"].v

RateBelow(w, pct) ==
    /\ datapoints[w]["Count"].has
    /\ datapoints[w]["Count"].v > 0
    /\ 100 * datapoints[w]["4XXError"].v < pct * datapoints[w]["Count"].v

Fourxx(a) ==
    /\ (Evaluated /\ RateBelow(Len(datapoints), 40)) =>
          alarmState[a.id] # "ALARM"
    /\ (Evaluated /\ Len(datapoints) >= a.evaluationPeriods
        /\ \A k \in 0..(a.evaluationPeriods - 1) :
              RateAtLeast(Len(datapoints) - k, 40)) =>
          /\ alarmState[a.id] = "ALARM"
          /\ \E h \in alarmHistory :
                /\ h.alarm = a.id
                /\ h.state = "ALARM"
                /\ h.topic # "none"

\* C16 (the claim as stated): for every declaration of the 4XX-rate alarm,
\* a latest rate below 40% leaves the alarm out of ALARM, and a rate of at
\* least 40% in each of its evaluation periods puts it in ALARM with a
\* publication to its topic.
C16_FourxxAlarmAtFortyPercent ==
    \A a \in {Alarm4xx_SixPeriods, Alarm4xx_OnePeriod, Alarm4xx_NoAction} :
        Fourxx(a)

\* C16 for the declaration with threshold 40, one period and the alarm
\* action, which it holds for.
C16_OnePeriodDeclarationAtFortyPercent == Fourxx(Alarm4xx_OnePeriod)

\* Whether the latest 5-minute window contains at least one 5XX response.
FivexxInLatestWindow ==
    LET d == datapoints[Len(datapoints)]["5XXError"]
    IN  d.has /\ d.v >= 1

Fivexx(a) ==
    /\ Evaluated =>
          (alarmState[a.id] = "ALARM" <=> FivexxInLatestWindow)
    /\ \A h \in alarmHistory :
          (h.alarm = a.id /\ h.state \in {"ALARM", "OK"}) =>
              /\ h.topic = "ApiAlarmTopic"
              /\ h.endpoints # {}

\* C22 (the claim as stated): every declaration of the API 5XX alarm is in
\* ALARM after an evaluation exactly when the latest 5-minute window holds
\* at least one 5XX response (never for zero or for no data), and each of
\* its changes to ALARM and to OK was published to the stage's alarm topic.
C22_FivexxAlarmNotifiesBothWays ==
    \A a \in {Alarm5xx, Alarm5xx_NoAction} : Fivexx(a)

\* C22 for the declaration with the alarm and OK actions, which it holds
\* for.
C22_DeclarationWithActions == Fivexx(Alarm5xx)

\* The pipeline-level alarms on FailedActions.
FailedActionAlarms ==
    {a \in PipelineAlarms :
        a.metric \in {"FailedActions/WorkoutTracer-Staging",
                      "FailedActions/WorkoutTracer-Prod",
                      "FailedActions/WorkoutTracer-Build"}}

\* The stages of the pipeline, and the metric a stage's failed actions are
\* reported under.
StageNamesOfPipeline ==
    {PipelineStages[i].stageName : i \in 1..Len(PipelineStages)}
FailedActionsOf(stageName) == "FailedActions/" \o stageName

\* The phase each alarm is meant for, by its alarmName.
PhaseMeantBy(a) ==
    CASE a.id = "WorkoutTracer-Staging-Deploy-Failed" -> "Staging"
      [] a.id = "WorkoutTracer-Prod-Deploy-Failed" -> "Prod"
      [] a.id = "WorkoutTracer-Build-Stage-Failed" -> "ArtifactsBuild"

FailedActionIn(stageName) ==
    LET d == datapoints[Len(datapoints)][FailedActionsOf(stageName)]
    IN  d.has /\ d.v > 0

\* C23: every pipeline-level failed-action alarm reads the FailedActions of
\* a stage the pipeline defines, and after a window in which an action of
\* the build, Staging or Prod phase failed, the alarm meant for that phase
\* is in ALARM.
C23_FailedActionAlarmsWatchPipelinePhases ==
    Evaluated =>
        \A a \in FailedActionAlarms :
            /\ \E n \in StageNamesOfPipeline : a.metric = FailedActionsOf(n)
            /\ FailedActionIn(PhaseMeantBy(a)) => alarmState[a.id] = "ALARM"

\* What holds instead: no failed action of any stage of the pipeline ever
\* puts a pipeline-level failed-action alarm in ALARM.
C23_FailedActionAlarmsNeverRaised ==
    \A a \in FailedActionAlarms : alarmState[a.id] # "ALARM"

----------------------------------------------------------------------------
(* Requests to the REST API *)

\* One request to the deployed API: the gateway routes it, applies the
\* method's authorization, and answers. 403 when no method serves it, 401
\* when the user pool authorizer rejects the caller, else the integration's
\* answer.
ApiRequest(api, method, path, token) ==
    /\ Len(apiLog) < MaxApiReq
    /\ LET auth == AuthorizationOf(api, path, method)
       IN  apiLog' = Append(apiLog,
              [api |-> api, method |-> method, path |-> path, token |-> token,
               resource |-> RouteOf(api, path), auth |-> auth,
               code |-> CASE auth = "no method" -> "403"
                          [] auth = "COGNITO" /\ ~CognitoAllows(token) -> "401"
                          [] OTHER -> "200",
               stage |-> <<>>, origin |-> "none", allowOrigin |-> "none"])
    /\ UNCHANGED <<synthVars, pipeVars, alarmVars, queueVars>>

\* A browser's CORS preflight, from a page of the given origin, to the API
\* of a stage: the OPTIONS method of the resource answers with the
\* Access-Control-Allow-Origin header.
Preflight(api, stage, origin) ==
    /\ Len(apiLog) < MaxApiReq
    /\ LET path == <<"users", "me">>
           auth == AuthorizationOf(api, path, "OPTIONS")
       IN  apiLog' = Append(apiLog,
              [api |-> api, method |-> "OPTIONS", path |-> path,
               token |-> "none", resource |-> RouteOf(api, path),
               auth |-> auth,
               code |-> IF auth = "NONE" THEN "200" ELSE "403",
               stage |-> stage, origin |-> origin,
               allowOrigin |-> AccessControlAllowOrigin(api, stage, origin)])
    /\ UNCHANGED <<synthVars, pipeVars, alarmVars, queueVars>>

InitApi ==
    /\ InitSynthIdle
    /\ InitPipelineIdle
    /\ InitAlarmsIdle
    /\ InitQueueIdle
    /\ apiLog = <<>>

NextApi ==
    \/ \E api \in ApiDeclarations, method \in HttpMethods,
          path \in RequestPaths, token \in Tokens :
            ApiRequest(api, method, path, token)
    \/ \E api \in ApiDeclarations, stage \in StageNames, origin \in Origins :
            Preflight(api, stage, origin)

SpecApi == InitApi /\ [][NextApi]_vars

Served(r) == r.code = "200"

OriginAllowed(r) == r.allowOrigin = "*" \/ r.allowOrigin = r.origin

\* The origins the sentence lists for a stage, by its case-folded name.
ListedOrigins(stage) ==
    IF toLowerCase(stage) = Chars_prod THEN {"https://workouttracer.com"}
    ELSE IF toLowerCase(stage) = Chars_staging
         THEN {"https://staging.workouttracer.com", "http://localhost:8080"}
    ELSE {"http://localhost:8080"}

Cors(r) ==
    /\ OriginAllowed(r) <=> r.origin \in ListedOrigins(r.stage)
    /\ (toLowerCase(r.stage) = Chars_prod
        /\ r.origin = "http://localhost:8080") => ~OriginAllowed(r)

\* C29 (the claim as stated): for every declaration of the API a preflight
\* is answered as allowed exactly for the origins listed for the
\* case-folded stage name (prod: https://workouttracer.com; staging:
\* https://staging.workouttracer.com and http://localhost:8080; any other:
\* http://localhost:8080), and the Prod API never allows a localhost origin.
C29_AllowedOriginsByStage ==
    \A i \in 1..Len(apiLog) :
        apiLog[i].origin # "none" => Cors(apiLog[i])

\* C29 for the declaration of api-stack.ts, which it holds for.
C29_RoutedDeclarationByStage ==
    \A i \in 1..Len(apiLog) :
        (apiLog[i].origin # "none" /\ apiLog[i].api = "routed")
            => Cors(apiLog[i])

----------------------------------------------------------------------------
(* Messages of the rate-limited batcher queue *)

\* The main queue without message m.
Without(q, m) == [x \in (DOMAIN q) \ {m} |-> q[x]]

\* A producer sends a message to the main queue.
SendMessage(m) ==
    /\ m \notin sentIds
    /\ sentIds' = sentIds \cup {m}
    /\ mainQueue' = [x \in (DOMAIN mainQueue) \cup {m} |->
                        IF x = m THEN Message(TRUE, 0, 0, 0)
                        ELSE mainQueue[x]]
    /\ UNCHANGED <<dlq, deliveries>>
    /\ UNCHANGED <<synthVars, pipeVars, alarmVars, apiLog>>

\* A consumer polls the main queue and the queue considers visible message
\* m. The redrive policy moves a message whose receive count has reached
\* maxReceiveCount to the dead-letter queue instead of delivering it;
\* otherwise the message is delivered to an invocation of one of the
\* consumers, which may run for as long as the function's timeout, and stays
\* invisible for the visibility timeout.
ReceiveMessage(m) ==
    /\ m \in DOMAIN mainQueue
    /\ mainQueue[m].visible
    /\ IF mainQueue[m].receiveCount >= maxReceiveCount
       THEN /\ mainQueue' = Without(mainQueue, m)
            /\ dlq' = dlq \cup {m}
            /\ UNCHANGED deliveries
       ELSE /\ \E c \in Consumers :
                 mainQueue' = [mainQueue EXCEPT
                                 ![m] = Message(FALSE, @.receiveCount + 1,
                                                visibilityTimeout,
                                                FunctionTimeout(c))]
            /\ deliveries' = [deliveries EXCEPT ![m] = @ + 1]
            /\ UNCHANGED dlq
    /\ UNCHANGED sentIds
    /\ UNCHANGED <<synthVars, pipeVars, alarmVars, apiLog>>

\* The invocation that received the message finished it and deletes it.
DeleteMessage(m) ==
    /\ m \in DOMAIN mainQueue
    /\ ~mainQueue[m].visible
    /\ mainQueue[m].holderLeft > 0
    /\ mainQueue' = Without(mainQueue, m)
    /\ UNCHANGED <<sentIds, dlq, deliveries>>
    /\ UNCHANGED <<synthVars, pipeVars, alarmVars, apiLog>>

\* The consumer did not delete the message within visibilityTimeout: the
\* message is visible again.
VisibilityTimeout(m) ==
    /\ m \in DOMAIN mainQueue
    /\ ~mainQueue[m].visible
    /\ mainQueue[m].invisibleLeft = 0
    /\ mainQueue' = [mainQueue EXCEPT ![m].visible = TRUE]
    /\ UNCHANGED <<sentIds, dlq, deliveries>>
    /\ UNCHANGED <<synthVars, pipeVars, alarmVars, apiLog>>

Less(a, b) == IF a > b THEN a - b ELSE 0

\* TickSeconds pass: the visibility timeouts and the invocations run down.
\* A visibility timeout that has run out takes effect before more time
\* passes.
Elapse ==
    /\ \E m \in DOMAIN mainQueue :
          mainQueue[m].invisibleLeft > 0 \/ mainQueue[m].holderLeft > 0
    /\ \A m \in DOMAIN mainQueue :
          mainQueue[m].visible \/ mainQueue[m].invisibleLeft > 0
    /\ mainQueue' =
          [m \in DOMAIN mainQueue |->
              [mainQueue[m] EXCEPT
                 !.invisibleLeft = Less(@, TickSeconds),
                 !.holderLeft = Less(@, TickSeconds)]]
    /\ UNCHANGED <<sentIds, dlq, deliveries>>
    /\ UNCHANGED <<synthVars, pipeVars, alarmVars, apiLog>>

\* retentionPeriod of the main queue passed for a message still in it.
RetentionExpires(m) ==
    /\ m \in DOMAIN mainQueue
    /\ mainQueue' = Without(mainQueue, m)
    /\ UNCHANGED <<sentIds, dlq, deliveries>>
    /\ UNCHANGED <<synthVars, pipeVars, alarmVars, apiLog>>

InitQueue ==
    /\ InitSynthIdle
    /\ InitPipelineIdle
    /\ InitAlarmsIdle
    /\ InitApiIdle
    /\ InitQueueIdle

NextQueue ==
    \/ \E m \in MessageIds : SendMessage(m)
    \/ \E m \in MessageIds : ReceiveMessage(m)
    \/ \E m \in MessageIds : DeleteMessage(m)
    \/ \E m \in MessageIds : VisibilityTimeout(m)
    \/ \E m \in MessageIds : RetentionExpires(m)
    \/ Elapse

SpecQueue == InitQueue /\ [][NextQueue]_vars

\* C19: a message is delivered from the main queue at most 5 times; a
\* message in the dead-letter queue was delivered exactly 5 times and is
\* not in the main queue, so it is not delivered from it again; a message
\* still in the main queue was received as often as it was delivered.
C19_RedriveAfterFiveReceives ==
    \A m \in MessageIds :
        /\ deliveries[m] <= 5
        /\ m \in dlq => (deliveries[m] = 5 /\ m \notin DOMAIN mainQueue)
        /\ m \in DOMAIN mainQueue =>
              (mainQueue[m].receiveCount = deliveries[m] /\ m \notin dlq)

C19_Witness ==
    /\ 1 \in dlq
    /\ deliveries[1] = 5
    /\ 2 \in DOMAIN mainQueue
    /\ ~mainQueue[2].visible
    /\ deliveries[2] = 5

\* C28: the visibility timeout of the batcher queue is at least the timeout
\* of every function that consumes it, and a message is never visible, and
\* so never delivered again, while the invocation that received it may
\* still be running.
C28_NoRedeliveryWhileConsumerRuns ==
    /\ \A c \in Consumers : visibilityTimeout >= FunctionTimeout(c)
    /\ \A m \in DOMAIN mainQueue :
          mainQueue[m].holderLeft > 0 => ~mainQueue[m].visible

C28_Witness ==
    /\ 1 \in DOMAIN mainQueue
    /\ mainQueue[1].visible
    /\ mainQueue[1].receiveCount = 1
    /\ mainQueue[1].holderLeft = 0
    /\ 2 \in DOMAIN mainQueue
    /\ ~mainQueue[2].visible
    /\ mainQueue[2].receiveCount = 2
    /\ mainQueue[2].invisibleLeft = visibilityTimeout - 2 * TickSeconds
    /\ mainQueue[2].holderLeft = 0

----------------------------------------------------------------------------
(* Access granted between the stacks *)

\* resources: ["*"] of a policy statement.
Wildcard == <<"*">>

Resource(service, name) == [service |-> service, name |-> name]

\* The named resources a stack declares that policy statements refer to:
\* the user table, and the log group of the API function.
DeclaredResources(st) ==
    CASE st.kind = "DatabaseStack" ->
            {Resource("dynamodb", PhysicalName(Chars_UserTable, st.stage))}
      [] st.kind = "ApiStack" ->
            {Resource("logs", PhysicalName(Chars_ApiLambda, st.stage))}
      [] OTHER -> {}

\* The table a userTable handle stands for.
TableOf(handle) == Resource("dynamodb", PhysicalName(Chars_UserTable, handle.stage))

\* The resources of the policy statements a stack attaches to its roles:
\* userTable.grant...Data on the handle it was given, the log groups
\* LogDivingLambda may query, and the statement of the API Gateway
\* CloudWatch role on resources: ["*"].
PolicyResources(st) ==
    LET onTable == IF "userTable" \in DOMAIN st.inputs
                      /\ st.inputs["userTable"] # Undefined
                   THEN {TableOf(st.inputs["userTable"])}
                   ELSE {}
    IN  CASE st.kind = "AuthStack" -> onTable
          [] st.kind = "ApiStack" ->
                onTable \cup
                {Resource("logs", PhysicalName(Chars_ApiLambda, st.stage)),
                 Resource("logs", Wildcard)}
          [] OTHER -> {}

\* Whether a statement's resource covers the resource.
Covers(pattern, res) ==
    /\ pattern.service = res.service
    /\ (pattern.name = Wildcard \/ pattern.name = res.name)

\* C20 (the claim as stated): every handle a stack was given comes from a
\* stack of its own stage, and no policy statement of a stack covers a
\* resource declared by a stack of another stage.
C20_StagesIsolated ==
    \A i \in 1..Len(stacks) :
        /\ \A p \in DOMAIN stacks[i].inputs :
              stacks[i].inputs[p] # Undefined =>
                  stacks[i].inputs[p].stage = stacks[i].stage
        /\ \A j \in 1..Len(stacks) :
              (stacks[i].kind # "PipelineStack" /\ stacks[j].kind # "PipelineStack"
               /\ stacks[j].stage # stacks[i].stage) =>
                  \A pattern \in PolicyResources(stacks[i]) :
                      \A res \in DeclaredResources(stacks[j]) :
                          ~Covers(pattern, res)

\* C20 for the handles and for the statements that name their resource,
\* which it holds for.
C20_NamedAccessWithinStage ==
    \A i \in 1..Len(stacks) :
        /\ \A p \in DOMAIN stacks[i].inputs :
              stacks[i].inputs[p] # Undefined =>
                  stacks[i].inputs[p].stage = stacks[i].stage
        /\ \A j \in 1..Len(stacks) :
              (stacks[i].kind # "PipelineStack" /\ stacks[j].kind # "PipelineStack"
               /\ stacks[j].stage # stacks[i].stage) =>
                  \A pattern \in PolicyResources(stacks[i]) :
                      pattern.name # Wildcard =>
                          \A res \in DeclaredResources(stacks[j]) :
                              ~Covers(pattern, res)

----------------------------------------------------------------------------
(* Properties of the loader's context *)

\* At least one of the five flags holds a non-empty text.
Automated == \E f \in FlagNames : env[f] = "set"

\* C21: the run is automated exactly when one of the five flags is set to a
\* non-empty value; an automated run takes the stage map from CDK_ENV_CONFIG
\* alone and never reads the local file, a local run takes it from the file
\* alone whatever CDK_ENV_CONFIG holds.
C21_ContextSelectsSource ==
    (envConfig # NotLoaded) =>
        /\ fileRead <=> ~Automated
        /\ Automated =>
             envConfig = (IF payload.kind \in {"unset", "empty"}
                          THEN Thrown ELSE JsonParse(payload))
        /\ ~Automated =>
             envConfig = (IF file.kind = "unreadable"
                          THEN Thrown ELSE JsonParse(file))

C21_Witness ==
    /\ Automated
    /\ env["USE_SECRETS_MANAGER"] = "set"
    /\ payload.kind = "map"
    /\ file.kind = "null"
    /\ envConfig.kind = "map"
    /\ envConfig.cfg = payload.cfg
    /\ ~fileRead

\* The local run: an empty flag does not make the run automated, and a
\* well-formed CDK_ENV_CONFIG is ignored.
C21_WitnessLocal ==
    /\ env["CICD"] = "empty"
    /\ payload.kind = "map"
    /\ file.kind = "null"
    /\ envConfig = Null
    /\ fileRead

----------------------------------------------------------------------------
(* Names shared between the API stack and the Strava stack *)

Chars_RateLimitedBatcherQueue ==
    <<"R","a","t","e","L","i","m","i","t","e","d","B","a","t","c","h","e","r",
      "Q","u","e","u","e">>
Chars_RateLimitedBatcherDLQ ==
    <<"R","a","t","e","L","i","m","i","t","e","d","B","a","t","c","h","e","r",
      "D","L","Q">>
Chars_BatchUpdateWorkoutsLambda ==
    <<"B","a","t","c","h","U","p","d","a","t","e","W","o","r","k","o","u","t",
      "s","L","a","m","b","d","a">>
Chars_StravaOnboardingLambda ==
    <<"S","t","r","a","v","a","O","n","b","o","a","r","d","i","n","g",
      "L","a","m","b","d","a">>

\* WorkoutTracerStravaStack: the queueName of its two queues and the
\* functionName of its two functions.
StravaStackQueues(stage) ==
    {PhysicalName(Chars_RateLimitedBatcherDLQ, stage),
     PhysicalName(Chars_RateLimitedBatcherQueue, stage)}
StravaStackFunctions(stage) ==
    {PhysicalName(Chars_BatchUpdateWorkoutsLambda, stage),
     PhysicalName(Chars_StravaOnboardingLambda, stage)}

\* ApiStack, environment of the API function.
\* DLQ_NAME: `WorkoutTracer-RateLimitedBatcherQueue-${stage.toLowerCase()}`
DLQ_NAME(stage) ==
    PhysicalName(Chars_RateLimitedBatcherQueue, toLowerCase(stage))

\* STRAVA_ONBOARDING_LAMBDA_ARN, the function name at the end of the ARN:
\* `WorkoutTracer-StravaOnboardingLambdaV2-${stage}`
STRAVA_ONBOARDING_LAMBDA_ARN(stage) ==
    PhysicalName(Chars_StravaOnboardingLambda \o <<"V", "2">>, stage)

\* ApiStack, the queues named by the resources of the sqs policy statement
\* of the API function (region and account are the stack's own).
ApiSqsPolicyQueues(stage) ==
    {PhysicalName(Chars_RateLimitedBatcherQueue, stage),
     PhysicalName(Chars_RateLimitedBatcherDLQ, stage)}

ApiStages == {stacks[i].stage : i \in {k \in 1..Len(stacks) : stacks[k].kind = "ApiStack"}}

\* C24: for every stage with an API stack, the queue name in DLQ_NAME, the
\* queues of the send/receive policy and the function of
\* STRAVA_ONBOARDING_LAMBDA_ARN are names the Strava stack declares for the
\* same stage.
C24_ConstructedNamesExist ==
    \A stage \in ApiStages :
        /\ DLQ_NAME(stage) \in StravaStackQueues(stage)
        /\ ApiSqsPolicyQueues(stage) \subseteq StravaStackQueues(stage)
        /\ STRAVA_ONBOARDING_LAMBDA_ARN(stage) \in StravaStackFunctions(stage)

\* The part of C24 that holds: the queues of the policy statement are the
\* two queues the Strava stack declares for the stage.
C24_PolicyQueuesExist ==
    \A stage \in ApiStages :
        ApiSqsPolicyQueues(stage) = StravaStackQueues(stage)

\* DLQ_NAME alone: it names a declared queue only for a stage whose name has
\* no upper-case letter.
C24_QueueNameExistsIffLowercase ==
    \A stage \in ApiStages :
        DLQ_NAME(stage) \in StravaStackQueues(stage) <=> toLowerCase(stage) = stage

----------------------------------------------------------------------------
(* The hosted login domain *)

\* ApiStack, environment.COGNITO_DOMAIN: the domain prefix of the URL, the
\* text between "https://" and ".auth.us-west-2.amazoncognito.com".
COGNITO_DOMAIN(stage) ==
    IF toLowerCase(stage) = Chars_prod
    THEN Chars_workouttracer
    ELSE Chars_workouttracer \o Chars_Dash \o toLowerCase(stage)

\* The same in the earlier declaration of the API stack:
\* `https://workouttracer-${stage}.auth.us-west-2.amazoncognito.com`
COGNITO_DOMAIN_Earlier(stage) == Chars_workouttracer \o Chars_Dash \o stage

\* C25: for every stage with an API stack, Prod included, the domain prefix
\* of COGNITO_DOMAIN is the domain prefix the identity stack provisions for
\* the stage.
C25_LoginDomainMatches ==
    \A stage \in ApiStages : COGNITO_DOMAIN(stage) = DomainPrefix(stage)

\* What holds instead: the two agree exactly for the stages whose
\* lower-cased name is not "prod".
C25_LoginDomainMatchesIffNotProd ==
    \A stage \in ApiStages :
        COGNITO_DOMAIN(stage) = DomainPrefix(stage)
            <=> toLowerCase(stage) # Chars_prod

====
